---- MODULE Spec2Model ----
(***************************************************************************)
(* Comment placement of ast_comments.parse.                                *)
(*                                                                         *)
(* parse(source) runs the parser, extracts the comment tokens of the text  *)
(* and threads them into the parser's tree: ASTEnrichmentWithComments      *)
(* walks the tree and, node by node, hands every comment inside the node's *)
(* line span to one of the node's lists (body, handlers, orelse,           *)
(* finalbody, elts, keys), to the `comment` attribute of the node or of    *)
(* one of its children, or leaves it for a later node; what is left at     *)
(* the end goes to the root body.  A call ends with the tree or with the   *)
(* exception of a list entry without line numbers or of a root body that   *)
(* is no list.  unparse writes the text of a tree; its _Unparser is the    *)
(* serializer as the specification describes it.                           *)
(*                                                                         *)
(* The tokenizer and the parser are collaborators: the trees below are     *)
(* what ast.parse returns for the sample programs (line numbers and end    *)
(* columns included).  Context and operator singletons (Load, Store, ...)  *)
(* are left out of the trees: they have no position and no fields, so the  *)
(* loop body of append_comment_nodes does nothing for them.                *)
(*                                                                         *)
(* A source line is a sequence over a small alphabet: " " and "\t" are     *)
(* themselves, "#" starts a comment, "\r" and "\n" end the line, "K" is an *)
(* occurrence of one of _KEYWORDS and "c" is any other text.               *)
(***************************************************************************)
EXTENDS Integers, Sequences, FiniteSets, TLC

(* An ast node as the parser returns it.  lineno = 0: the node has no      *)
(* lineno/end_lineno attributes.  fields: the fields holding nodes, in     *)
(* _fields order; dir: the same names in dir() order; lists: the fields    *)
(* that are lists; val: the nodes a field holds; hdr: for a statement      *)
(* list, the line of the keyword that opens it (0: none).                  *)
Node(cls, stmt, lineno, end_lineno, end_col_offset, fields, dir, lists, val, hdr) ==
  [cls |-> cls, stmt |-> stmt, lineno |-> lineno, end_lineno |-> end_lineno,
   end_col_offset |-> end_col_offset, fields |-> fields, dir |-> dir,
   lists |-> lists, val |-> val, hdr |-> hdr]

(* Sample program Simple.  A line shown as ~ is blank or holds a standalone
   comment; every other line may carry a trailing comment.
    1| ~
    2| a = 1; b = 2
    3| ~
    4| c = 3
    5| ~
   Nodes are numbered in the order ast.walk visits the parser's tree. *)
ProgSimple ==
  [slots |-> {1, 3, 5},
   code |-> <<<<>>, <<"c">>, <<>>, <<"c">>, <<>>>>,
   nodes |-> <<
     Node("Module", FALSE, 0, 0, 0, <<"body", "type_ignores">>, <<"body", "type_ignores">>, {"body", "type_ignores"}, [body |-> <<2, 3, 4>>, type_ignores |-> <<>>], <<>>),
     Node("Assign", TRUE, 2, 2, 5, <<"targets", "value">>, <<"targets", "value">>, {"targets"}, [targets |-> <<5>>, value |-> <<6>>], <<>>),
     Node("Assign", TRUE, 2, 2, 12, <<"targets", "value">>, <<"targets", "value">>, {"targets"}, [targets |-> <<7>>, value |-> <<8>>], <<>>),
     Node("Assign", TRUE, 4, 4, 5, <<"targets", "value">>, <<"targets", "value">>, {"targets"}, [targets |-> <<9>>, value |-> <<10>>], <<>>),
     Node("Name", FALSE, 2, 2, 1, <<>>, <<>>, {}, <<>>, <<>>),
     Node("Constant", FALSE, 2, 2, 5, <<>>, <<>>, {}, <<>>, <<>>),
     Node("Name", FALSE, 2, 2, 8, <<>>, <<>>, {}, <<>>, <<>>),
     Node("Constant", FALSE, 2, 2, 12, <<>>, <<>>, {}, <<>>, <<>>),
     Node("Name", FALSE, 4, 4, 1, <<>>, <<>>, {}, <<>>, <<>>),
     Node("Constant", FALSE, 4, 4, 5, <<>>, <<>>, {}, <<>>, <<>>)
   >>]

(* Sample program IfElse.  A line shown as ~ is blank or holds a standalone
   comment; every other line may carry a trailing comment.
    1| if a:
    2| ~
    3|     b
    4| ~
    5| else:
    6| ~
    7|     d
    8| ~
    9| e = 1
   Nodes are numbered in the order ast.walk visits the parser's tree. *)
ProgIfElse ==
  [slots |-> {2, 4, 6, 8},
   code |-> <<<<"K", "c">>, <<>>, <<" ", " ", " ", " ", "c">>, <<>>, <<"K", "c">>, <<>>, <<" ", " ", " ", " ", "c">>, <<>>, <<"c">>>>,
   nodes |-> <<
     Node("Module", FALSE, 0, 0, 0, <<"body", "type_ignores">>, <<"body", "type_ignores">>, {"body", "type_ignores"}, [body |-> <<2, 3>>, type_ignores |-> <<>>], <<>>),
     Node("If", TRUE, 1, 7, 5, <<"test", "body", "orelse">>, <<"body", "orelse", "test">>, {"body", "orelse"}, [test |-> <<4>>, body |-> <<5>>, orelse |-> <<6>>], [body |-> 1, orelse |-> 5]),
     Node("Assign", TRUE, 9, 9, 5, <<"targets", "value">>, <<"targets", "value">>, {"targets"}, [targets |-> <<7>>, value |-> <<8>>], <<>>),
     Node("Name", FALSE, 1, 1, 4, <<>>, <<>>, {}, <<>>, <<>>),
     Node("Expr", TRUE, 3, 3, 5, <<"value">>, <<"value">>, {}, [value |-> <<9>>], <<>>),
     Node("Expr", TRUE, 7, 7, 5, <<"value">>, <<"value">>, {}, [value |-> <<10>>], <<>>),
     Node("Name", FALSE, 9, 9, 1, <<>>, <<>>, {}, <<>>, <<>>),
     Node("Constant", FALSE, 9, 9, 5, <<>>, <<>>, {}, <<>>, <<>>),
     Node("Name", FALSE, 3, 3, 5, <<>>, <<>>, {}, <<>>, <<>>),
     Node("Name", FALSE, 7, 7, 5, <<>>, <<>>, {}, <<>>, <<>>)
   >>]

(* Sample program ClassDef.  A line shown as ~ is blank or holds a standalone
   comment; every other line may carry a trailing comment.
    1| class A:
    2|     v = 1
    3| ~
    4|     def f(self):
    5| ~
    6|         x
    7| ~
    8|     y = 2
    9| ~
   Nodes are numbered in the order ast.walk visits the parser's tree. *)
ProgClassDef ==
  [slots |-> {3, 5, 7, 9},
   code |-> <<<<"c">>, <<" ", " ", " ", " ", "c">>, <<>>, <<" ", " ", " ", " ", "c">>, <<>>, <<" ", " ", " ", " ", " ", " ", " ", " ", "c">>, <<>>, <<" ", " ", " ", " ", "c">>, <<>>>>,
   nodes |-> <<
     Node("Module", FALSE, 0, 0, 0, <<"body", "type_ignores">>, <<"body", "type_ignores">>, {"body", "type_ignores"}, [body |-> <<2>>, type_ignores |-> <<>>], <<>>),
     Node("ClassDef", TRUE, 1, 8, 9, <<"bases", "keywords", "body", "decorator_list">>, <<"bases", "body", "decorator_list", "keywords">>, {"bases", "body", "decorator_list", "keywords"}, [bases |-> <<>>, keywords |-> <<>>, body |-> <<3, 4, 5>>, decorator_list |-> <<>>], [body |-> 1]),
     Node("Assign", TRUE, 2, 2, 9, <<"targets", "value">>, <<"targets", "value">>, {"targets"}, [targets |-> <<6>>, value |-> <<7>>], <<>>),
     Node("FunctionDef", TRUE, 4, 6, 9, <<"args", "body", "decorator_list">>, <<"args", "body", "decorator_list">>, {"body", "decorator_list"}, [args |-> <<8>>, body |-> <<9>>, decorator_list |-> <<>>], [body |-> 4]),
     Node("Assign", TRUE, 8, 8, 9, <<"targets", "value">>, <<"targets", "value">>, {"targets"}, [targets |-> <<10>>, value |-> <<11>>], <<>>),
     Node("Name", FALSE, 2, 2, 5, <<>>, <<>>, {}, <<>>, <<>>),
     Node("Constant", FALSE, 2, 2, 9, <<>>, <<>>, {}, <<>>, <<>>),
     Node("arguments", FALSE, 0, 0, 0, <<"posonlyargs", "args", "kwonlyargs", "kw_defaults", "defaults">>, <<"args", "defaults", "kw_defaults", "kwonlyargs", "posonlyargs">>, {"args", "defaults", "kw_defaults", "kwonlyargs", "posonlyargs"}, [posonlyargs |-> <<>>, args |-> <<12>>, kwonlyargs |-> <<>>, kw_defaults |-> <<>>, defaults |-> <<>>], <<>>),
     Node("Expr", TRUE, 6, 6, 9, <<"value">>, <<"value">>, {}, [value |-> <<13>>], <<>>),
     Node("Name", FALSE, 8, 8, 5, <<>>, <<>>, {}, <<>>, <<>>),
     Node("Constant", FALSE, 8, 8, 9, <<>>, <<>>, {}, <<>>, <<>>),
     Node("arg", FALSE, 4, 4, 14, <<>>, <<>>, {}, <<>>, <<>>),
     Node("Name", FALSE, 6, 6, 9, <<>>, <<>>, {}, <<>>, <<>>)
   >>]

(* Sample program TryFinally.  A line shown as ~ is blank or holds a standalone
   comment; every other line may carry a trailing comment.
    1| try:
    2| ~
    3|     a
    4| ~
    5| except E:
    6|     b
    7| finally:
    8| ~
    9|     c
   Nodes are numbered in the order ast.walk visits the parser's tree. *)
ProgTryFinally ==
  [slots |-> {2, 4, 8},
   code |-> <<<<"K", "c">>, <<>>, <<" ", " ", " ", " ", "c">>, <<>>, <<"K", "c">>, <<" ", " ", " ", " ", "c">>, <<"K", "c">>, <<>>, <<" ", " ", " ", " ", "c">>>>,
   nodes |-> <<
     Node("Module", FALSE, 0, 0, 0, <<"body", "type_ignores">>, <<"body", "type_ignores">>, {"body", "type_ignores"}, [body |-> <<2>>, type_ignores |-> <<>>], <<>>),
     Node("Try", TRUE, 1, 9, 5, <<"body", "handlers", "orelse", "finalbody">>, <<"body", "finalbody", "handlers", "orelse">>, {"body", "finalbody", "handlers", "orelse"}, [body |-> <<3>>, handlers |-> <<4>>, orelse |-> <<>>, finalbody |-> <<5>>], [body |-> 1, handlers |-> 0, finalbody |-> 7]),
     Node("Expr", TRUE, 3, 3, 5, <<"value">>, <<"value">>, {}, [value |-> <<6>>], <<>>),
     Node("ExceptHandler", FALSE, 5, 6, 5, <<"type", "body">>, <<"body", "type">>, {"body"}, [type |-> <<7>>, body |-> <<8>>], [body |-> 5]),
     Node("Expr", TRUE, 9, 9, 5, <<"value">>, <<"value">>, {}, [value |-> <<9>>], <<>>),
     Node("Name", FALSE, 3, 3, 5, <<>>, <<>>, {}, <<>>, <<>>),
     Node("Name", FALSE, 5, 5, 8, <<>>, <<>>, {}, <<>>, <<>>),
     Node("Expr", TRUE, 6, 6, 5, <<"value">>, <<"value">>, {}, [value |-> <<10>>], <<>>),
     Node("Name", FALSE, 9, 9, 5, <<>>, <<>>, {}, <<>>, <<>>),
     Node("Name", FALSE, 6, 6, 5, <<>>, <<>>, {}, <<>>, <<>>)
   >>]

(* Sample program ForElif.  A line shown as ~ is blank or holds a standalone
   comment; every other line may carry a trailing comment.
    1| for i in r:
    2|     if a:
    3|         b
    4| ~
    5|     elif c:
    6| ~
    7|         d
    8| ~
    9| else:
   10|     e
   Nodes are numbered in the order ast.walk visits the parser's tree. *)
ProgForElif ==
  [slots |-> {4, 6, 8},
   code |-> <<<<"K", "c">>, <<" ", " ", " ", " ", "K", "c">>, <<" ", " ", " ", " ", " ", " ", " ", " ", "c">>, <<>>, <<" ", " ", " ", " ", "K", "c">>, <<>>, <<" ", " ", " ", " ", " ", " ", " ", " ", "c">>, <<>>, <<"K", "c">>, <<" ", " ", " ", " ", "c">>>>,
   nodes |-> <<
     Node("Module", FALSE, 0, 0, 0, <<"body", "type_ignores">>, <<"body", "type_ignores">>, {"body", "type_ignores"}, [body |-> <<2>>, type_ignores |-> <<>>], <<>>),
     Node("For", TRUE, 1, 10, 5, <<"target", "iter", "body", "orelse">>, <<"body", "iter", "orelse", "target">>, {"body", "orelse"}, [target |-> <<3>>, iter |-> <<4>>, body |-> <<5>>, orelse |-> <<6>>], [body |-> 1, orelse |-> 9]),
     Node("Name", FALSE, 1, 1, 5, <<>>, <<>>, {}, <<>>, <<>>),
     Node("Name", FALSE, 1, 1, 10, <<>>, <<>>, {}, <<>>, <<>>),
     Node("If", TRUE, 2, 7, 9, <<"test", "body", "orelse">>, <<"body", "orelse", "test">>, {"body", "orelse"}, [test |-> <<7>>, body |-> <<8>>, orelse |-> <<9>>], [body |-> 2, orelse |-> 0]),
     Node("Expr", TRUE, 10, 10, 5, <<"value">>, <<"value">>, {}, [value |-> <<10>>], <<>>),
     Node("Name", FALSE, 2, 2, 8, <<>>, <<>>, {}, <<>>, <<>>),
     Node("Expr", TRUE, 3, 3, 9, <<"value">>, <<"value">>, {}, [value |-> <<11>>], <<>>),
     Node("If", TRUE, 5, 7, 9, <<"test", "body", "orelse">>, <<"body", "orelse", "test">>, {"body", "orelse"}, [test |-> <<12>>, body |-> <<13>>, orelse |-> <<>>], [body |-> 5]),
     Node("Name", FALSE, 10, 10, 5, <<>>, <<>>, {}, <<>>, <<>>),
     Node("Name", FALSE, 3, 3, 9, <<>>, <<>>, {}, <<>>, <<>>),
     Node("Name", FALSE, 5, 5, 10, <<>>, <<>>, {}, <<>>, <<>>),
     Node("Expr", TRUE, 7, 7, 9, <<"value">>, <<"value">>, {}, [value |-> <<14>>], <<>>),
     Node("Name", FALSE, 7, 7, 9, <<>>, <<>>, {}, <<>>, <<>>)
   >>]

(* Sample program ListLit.  A line shown as ~ is blank or holds a standalone
   comment; every other line may carry a trailing comment.
    1| x = [
    2| ~
    3|     1,
    4| ~
    5|     2
    6| ]
   Nodes are numbered in the order ast.walk visits the parser's tree. *)
ProgListLit ==
  [slots |-> {2, 4},
   code |-> <<<<"c">>, <<>>, <<" ", " ", " ", " ", "c">>, <<>>, <<" ", " ", " ", " ", "c">>, <<"c">>>>,
   nodes |-> <<
     Node("Module", FALSE, 0, 0, 0, <<"body", "type_ignores">>, <<"body", "type_ignores">>, {"body", "type_ignores"}, [body |-> <<2>>, type_ignores |-> <<>>], <<>>),
     Node("Assign", TRUE, 1, 6, 1, <<"targets", "value">>, <<"targets", "value">>, {"targets"}, [targets |-> <<3>>, value |-> <<4>>], <<>>),
     Node("Name", FALSE, 1, 1, 1, <<>>, <<>>, {}, <<>>, <<>>),
     Node("List", FALSE, 1, 6, 1, <<"elts">>, <<"elts">>, {"elts"}, [elts |-> <<5, 6>>], <<>>),
     Node("Constant", FALSE, 3, 3, 5, <<>>, <<>>, {}, <<>>, <<>>),
     Node("Constant", FALSE, 5, 5, 5, <<>>, <<>>, {}, <<>>, <<>>)
   >>]

(* Sample program DictStar.  A line shown as ~ is blank or holds a standalone
   comment; every other line may carry a trailing comment.
    1| x = {**a}
    2| ~
   Nodes are numbered in the order ast.walk visits the parser's tree. *)
ProgDictStar ==
  [slots |-> {2},
   code |-> <<<<"c">>, <<>>>>,
   nodes |-> <<
     Node("Module", FALSE, 0, 0, 0, <<"body", "type_ignores">>, <<"body", "type_ignores">>, {"body", "type_ignores"}, [body |-> <<2>>, type_ignores |-> <<>>], <<>>),
     Node("Assign", TRUE, 1, 1, 9, <<"targets", "value">>, <<"targets", "value">>, {"targets"}, [targets |-> <<3>>, value |-> <<4>>], <<>>),
     Node("Name", FALSE, 1, 1, 1, <<>>, <<>>, {}, <<>>, <<>>),
     Node("Dict", FALSE, 1, 1, 9, <<"keys", "values">>, <<"keys", "values">>, {"keys", "values"}, [keys |-> <<6>>, values |-> <<5>>], <<>>),
     Node("Name", FALSE, 1, 1, 8, <<>>, <<>>, {}, <<>>, <<>>),
     Node("NoneType", FALSE, 0, 0, 0, <<>>, <<>>, {}, <<>>, <<>>)
   >>]

(* Sample program Eval.  A line shown as ~ is blank or holds a standalone
   comment; every other line may carry a trailing comment.
    1| ~
    2| a
   The text is parsed with mode='eval'.
   Nodes are numbered in the order ast.walk visits the parser's tree. *)
ProgEval ==
  [slots |-> {1},
   code |-> <<<<>>, <<"c">>>>,
   nodes |-> <<
     Node("Expression", FALSE, 0, 0, 0, <<"body">>, <<"body">>, {}, [body |-> <<2>>], <<>>),
     Node("Name", FALSE, 2, 2, 1, <<>>, <<>>, {}, <<>>, <<>>)
   >>]

(* Sample program Paren.  A line shown as ~ is blank or holds a standalone
   comment; every other line may carry a trailing comment.
    1| (
    2|     a
    3| )
   Nodes are numbered in the order ast.walk visits the parser's tree. *)
ProgParen ==
  [slots |-> {},
   code |-> <<<<"c">>, <<" ", " ", " ", " ", "c">>, <<"c">>>>,
   nodes |-> <<
     Node("Module", FALSE, 0, 0, 0, <<"body", "type_ignores">>, <<"body", "type_ignores">>, {"body", "type_ignores"}, [body |-> <<2>>, type_ignores |-> <<>>], <<>>),
     Node("Expr", TRUE, 1, 3, 1, <<"value">>, <<"value">>, {}, [value |-> <<3>>], <<>>),
     Node("Name", FALSE, 2, 2, 5, <<>>, <<>>, {}, <<>>, <<>>)
   >>]

NodeFields ==
  [Module |-> <<"body", "type_ignores">>,
   Assign |-> <<"targets", "value">>,
   Name |-> <<>>,
   Constant |-> <<>>,
   If |-> <<"test", "body", "orelse">>,
   Expr |-> <<"value">>,
   ClassDef |-> <<"bases", "keywords", "body", "decorator_list">>,
   FunctionDef |-> <<"args", "body", "decorator_list">>,
   arguments |-> <<"posonlyargs", "args", "kwonlyargs", "kw_defaults", "defaults">>,
   arg |-> <<>>,
   Try |-> <<"body", "handlers", "orelse", "finalbody">>,
   ExceptHandler |-> <<"type", "body">>,
   For |-> <<"target", "iter", "body", "orelse">>,
   List |-> <<"elts">>,
   Dict |-> <<"keys", "values">>,
   Expression |-> <<"body">>]

Programs == <<ProgSimple, ProgIfElse, ProgClassDef, ProgTryFinally, ProgForElif, ProgListLit,
              ProgDictStar, ProgEval, ProgParen>>

(* Bounds of the inputs. *)
MaxComments == 2
MaxTreeCalls == 1

_CONTAINER_ATTRS == {"body", "handlers", "orelse", "finalbody", "elts", "keys"}

VARIABLES
  prog,               \* index of the program text handed to parse
  crlf,               \* TRUE: the lines of the text end in "\r\n", FALSE: in "\n"
  layout,             \* line -> where the line's comment is written ("-": no comment)
  phase,              \* "input", "walk" (the loop of append_comment_nodes), "done",
                      \* "raised" (parse ended with an exception)
  call,               \* source of the running or last parse call: "none", "text", "tree"
  tree_calls,         \* number of parse calls made with a tree as source
  todo,               \* the deque of ast.walk
  comment_nodes_set,  \* linenos of the Comment nodes not placed yet
  inline,             \* lineno of a Comment -> its inline attribute
  tree,               \* <<node, attr>> -> the list held by a container attribute
  comment,            \* node -> lineno of the Comment in its `comment` attribute, 0: no attribute
  class_fields,       \* node class -> its _fields once "comment" was added
  unparsed,           \* the text unparse returned, as a program; NoText: unparse was not called
  source_tree         \* dump of the tree unparse was called with; NoDump: none

vars == <<prog, crlf, layout, phase, call, tree_calls, todo, comment_nodes_set,
          inline, tree, comment, class_fields, unparsed, source_tree>>

NoText == [slots |-> {}, code |-> <<>>, nodes |-> <<>>, value |-> <<>>]
NoDump == [lists |-> <<>>, attrs |-> <<>>]

(* the text being parsed: the program handed in, or what unparse made of it *)
Prog == IF unparsed = NoText THEN Programs[prog] ELSE unparsed
Nd(n) == Prog.nodes[n]
Nodes == 1..Len(Prog.nodes)
NumLines == Len(Prog.code)
Root == 1

(* ---------------------------- source text ------------------------------ *)

Indent == <<" ", " ", " ", " ">>
CommentText(k) == <<"#", IF k \in {"T", "I"} THEN "K" ELSE "c">>

(* The ways a comment can be written on a line of a program: on a ~ line   *)
(* at column 0, behind four spaces, or behind a tab (text without / with a *)
(* keyword); on a code line behind the code (text without / with a         *)
(* keyword).  A keyword in the text of a comment that starts its line      *)
(* behind spaces is never looked at (is_comment_line), so it is not drawn. *)
KindsAt(p, l) == IF l \in Programs[p].slots THEN {"0", "s", "t", "T"} ELSE {"i", "I"}
AllKinds == {"0", "s", "t", "T", "i", "I"}

LayoutOf(p, S, k) == [l \in 1..Len(Programs[p].code) |-> IF l \in S THEN k[l] ELSE "-"]
Layouts(p) ==
  UNION { { LayoutOf(p, S, k) : k \in { f \in [S -> AllKinds] : \A l \in S : f[l] \in KindsAt(p, l) } }
          : S \in { T \in SUBSET (1..Len(Programs[p].code)) : Cardinality(T) <= MaxComments } }

Text(l) ==
  LET k == layout[l]
      code == Prog.code[l]
  IN CASE k = "-" -> code
       [] k = "0" -> CommentText(k)
       [] k = "s" -> Indent \o CommentText(k)
       [] k \in {"t", "T"} -> <<"\t">> \o CommentText(k)
       [] OTHER -> code \o <<" ">> \o CommentText(k)

(* code.splitlines(keepends=True)[l - 1]: the physical line with its terminator *)
splitlines(l) == Text(l) \o (IF crlf THEN <<"\r", "\n">> ELSE <<"\n">>)

(* source.split("\n") after lines.insert(0, ""): the "\n" is gone, a "\r" stays *)
lines(l) == Text(l) \o (IF crlf THEN <<"\r">> ELSE <<>>)

RECURSIVE lstrip(_, _)
lstrip(s, ch) == IF s # <<>> /\ Head(s) = ch THEN lstrip(Tail(s), ch) ELSE s

RECURSIVE rstrip(_, _)
rstrip(s, ch) == IF s # <<>> /\ s[Len(s)] = ch THEN rstrip(SubSeq(s, 1, Len(s) - 1), ch) ELSE s

strip(s, ch) == rstrip(lstrip(s, ch), ch)

Find(s, chars, from) ==
  LET hits == { i \in from..Len(s) : s[i] \in chars }
  IN IF hits = {} THEN Len(s) + 1 ELSE CHOOSE i \in hits : \A j \in hits : i <= j

(* tokenize: the COMMENT token of a physical line runs from "#" to the line *)
(* terminator (a "\r" or "\n"), trailing blanks included.  The code of the  *)
(* sample programs holds no "#" (no string literal with one).               *)
HasCommentToken(line) == Find(line, {"#"}, 1) <= Len(line)
TokenString(line) ==
  LET i == Find(line, {"#"}, 1) IN SubSeq(line, i, Find(line, {"\r", "\n"}, i) - 1)

IsInline(line) == TokenString(line) # lstrip(strip(line, "\n"), " ")

extract_comment_nodes ==
  [l \in { m \in 1..NumLines : HasCommentToken(splitlines(m)) } |-> IsInline(splitlines(l))]

is_comment_line(line) == LET s == lstrip(line, " ") IN s # <<>> /\ Head(s) = "#"

HasKeyword(line) == \E i \in 1..Len(line) : line[i] = "K"

(* ------------------------------ the tree ------------------------------- *)

(* An entry of a list is a node (its number) or a Comment (minus its lineno). *)
IsComment(e) == e < 0
lineno(e) == IF e < 0 THEN -e ELSE Nd(e).lineno
end_lineno(e) == IF e < 0 THEN -e ELSE Nd(e).end_lineno
HasPos(e) == lineno(e) > 0

ContainerLists(p) ==
  { <<n, a>> : n \in 1..Len(Programs[p].nodes), a \in _CONTAINER_ATTRS } \cap
  { na \in (1..Len(Programs[p].nodes)) \X _CONTAINER_ATTRS :
      na[2] \in Programs[p].nodes[na[1]].lists }

(* ast.parse(source): the lists of the parser's tree *)
ast_parse(p) == [na \in ContainerLists(p) |-> Programs[p].nodes[na[1]].val[na[2]]]

(* getattr(node, attr) as a sequence of entries *)
Attr(t, n, a) == IF <<n, a>> \in DOMAIN t THEN t[<<n, a>>] ELSE Nd(n).val[a]

(* ------------------------- placement helpers --------------------------- *)

Min(S) == CHOOSE x \in S : \A y \in S : x <= y
Max(S) == CHOOSE x \in S : \A y \in S : x >= y
Range(s) == { s[i] : i \in 1..Len(s) }

Perms(s) ==
  { p \in [1..Len(s) -> Range(s)] : \A i, j \in 1..Len(s) : p[i] = p[j] => i = j }

(* the orders in which a Python set can be iterated *)
Orders(S) == { p \in [1..Cardinality(S) -> S] : \A i, j \in 1..Cardinality(S) : p[i] = p[j] => i = j }

comments_in_lines_range(comment_nodes, low, high) ==
  { c \in comment_nodes : low <= c /\ c <= high }

(* node.lineno of an entry that has no lineno: AttributeError *)
get_block_range_raises(block) == \E i \in 1..Len(block) : ~HasPos(block[i])

get_block_range(block) ==
  <<Min({ lineno(block[i]) : i \in 1..Len(block) }),
    Max({ end_lineno(block[i]) : i \in 1..Len(block) })>>

(* key=lambda x: (x.end_lineno, isinstance(x, Comment)) *)
BlockKeyBefore(x, y) ==
  \/ end_lineno(x) < end_lineno(y)
  \/ end_lineno(x) = end_lineno(y) /\ ~IsComment(x) /\ IsComment(y)

(* list.sort is stable: an entry is moved in front of the entries behind   *)
(* which its key sorts, and of no others                                    *)
RECURSIVE InsertEntry(_, _)
InsertEntry(s, x) ==
  IF s = <<>> THEN <<x>>
  ELSE IF BlockKeyBefore(x, s[Len(s)])
       THEN Append(InsertEntry(SubSeq(s, 1, Len(s) - 1), x), s[Len(s)])
       ELSE Append(s, x)

RECURSIVE SortBlock(_)
SortBlock(s) ==
  IF s = <<>> THEN <<>> ELSE InsertEntry(SortBlock(SubSeq(s, 1, Len(s) - 1)), s[Len(s)])

add_comment_to_block_unsorted(block, comment_node) == Append(block, -comment_node)

add_comment_to_block(block, comment_node) == SortBlock(Append(block, -comment_node))

(* the blocks of a node: its non-empty container lists, in dir() order, then *)
(* block_ranges.sort(key=lambda b: b.lineno)                                 *)
RECURSIVE BlocksOf(_, _, _)
BlocksOf(t, n, names) ==
  IF names = <<>> THEN <<>>
  ELSE LET a == Head(names)
           rest == BlocksOf(t, n, Tail(names))
       IN IF a \in _CONTAINER_ATTRS /\ a \in Nd(n).lists /\ Len(Attr(t, n, a)) > 0
          THEN <<[attr |-> a, lineno |-> get_block_range(Attr(t, n, a))[1],
                  end_lineno |-> get_block_range(Attr(t, n, a))[2]]>> \o rest
          ELSE rest

(* `low, high = self.get_block_range(block)` raises for one of the blocks *)
block_ranges_raises(t, n) ==
  \E a \in Range(Nd(n).dir) :
    a \in _CONTAINER_ATTRS /\ a \in Nd(n).lists /\ Len(Attr(t, n, a)) > 0
    /\ get_block_range_raises(Attr(t, n, a))

RECURSIVE InsertRange(_, _)
InsertRange(s, x) ==
  IF s = <<>> THEN <<x>>
  ELSE IF x.lineno < s[Len(s)].lineno
       THEN Append(InsertRange(SubSeq(s, 1, Len(s) - 1), x), s[Len(s)])
       ELSE Append(s, x)

RECURSIVE SortRanges(_)
SortRanges(s) ==
  IF s = <<>> THEN <<>> ELSE InsertRange(SortRanges(SubSeq(s, 1, Len(s) - 1)), s[Len(s)])

block_ranges(t, n) == SortRanges(BlocksOf(t, n, Nd(n).dir))

(* append_child_with_inner_comment: the child is kept when it has a line    *)
(* before the node's last one                                               *)
child_comment_last_line(n, child_node) ==
  IF Nd(child_node).end_lineno < Nd(n).end_lineno - 1
  THEN Nd(child_node).end_lineno ELSE Nd(n).end_lineno - 1

KeepsChild(n, e) ==
  ~IsComment(e) /\ HasPos(e) /\ child_comment_last_line(n, e) >= Nd(e).lineno

RECURSIVE ChildrenOf(_, _, _)
ChildrenOf(t, n, names) ==
  IF names = <<>> THEN <<>>
  ELSE LET a == Head(names)
           rest == ChildrenOf(t, n, Tail(names))
       IN IF a \notin _CONTAINER_ATTRS /\ Nd(n).end_lineno - Nd(n).lineno + 1 > 1
          THEN SelectSeq(Attr(t, n, a), LAMBDA e : KeepsChild(n, e)) \o rest
          ELSE rest

children(t, n) == ChildrenOf(t, n, Nd(n).dir)

comments_inside_children(set, t, n) ==
  UNION { comments_in_lines_range(set, Nd(ch).lineno, child_comment_last_line(n, ch))
          : ch \in Range(children(t, n)) }

(* The three searches return an index into their list, 0 for None. *)
RECURSIVE inf_node_loop(_, _, _, _)
inf_node_loop(nodes, c, i, inf) ==
  IF i > Len(nodes) THEN inf
  ELSE inf_node_loop(nodes, c, i + 1,
         IF /\ Nd(nodes[i]).lineno <= c /\ c <= Nd(nodes[i]).end_lineno
            /\ (inf = 0 \/ Nd(nodes[inf]).end_col_offset < Nd(nodes[i]).end_col_offset)
         THEN i ELSE inf)

get_inf_node_for_comment(nodes, c) == inf_node_loop(nodes, c, 1, 0)

RECURSIVE inf_block_loop(_, _, _, _)
inf_block_loop(blocks, c, i, inf) ==
  IF i > Len(blocks) THEN inf
  ELSE inf_block_loop(blocks, c, i + 1,
         IF blocks[i].end_lineno < c /\ (inf = 0 \/ blocks[inf].end_lineno < blocks[i].end_lineno)
         THEN i ELSE inf)

get_inf_block_for_comment(blocks, c) == inf_block_loop(blocks, c, 1, 0)

RECURSIVE sup_block_loop(_, _, _, _)
sup_block_loop(blocks, c, i, sup) ==
  IF i > Len(blocks) THEN sup
  ELSE sup_block_loop(blocks, c, i + 1,
         IF blocks[i].lineno > c /\ (sup = 0 \/ blocks[sup].lineno > blocks[i].lineno)
         THEN i ELSE sup)

get_sup_block_for_comment(blocks, c) == sup_block_loop(blocks, c, 1, 0)

(* get_block_around_comment: index of the first block whose range holds the *)
(* comment, -1 (False) when an entry of that block holds it, 0 for None     *)
RECURSIVE around_loop(_, _, _, _, _)
around_loop(t, n, blocks, c, i) ==
  IF i > Len(blocks) THEN 0
  ELSE IF blocks[i].lineno <= c /\ c <= blocks[i].end_lineno
       THEN IF \E e \in Range(Attr(t, n, blocks[i].attr)) : lineno(e) <= c /\ c <= end_lineno(e)
            THEN -1 ELSE i
       ELSE around_loop(t, n, blocks, c, i + 1)

get_block_around_comment(t, n, blocks, c) == around_loop(t, n, blocks, c, 1)

(* the scan of the lines between two blocks, from the later block's first   *)
(* line upwards: the first line that is no comment line and holds a keyword *)
(* decides                                                                  *)
RECURSIVE keyword_scan(_, _, _, _)
keyword_scan(c, line_number, inf, sup) ==
  IF line_number <= inf.end_lineno THEN "None"
  ELSE IF ~is_comment_line(lines(line_number)) /\ HasKeyword(lines(line_number))
       THEN (IF c < line_number THEN inf.attr ELSE sup.attr)
       ELSE keyword_scan(c, line_number - 1, inf, sup)

(* the attribute of the block a comment that is not inline goes to, "None": *)
(* the comment stays in comment_nodes_set                                   *)
block_for_comment(t, n, blocks, c) ==
  LET around == get_block_around_comment(t, n, blocks, c)
      inf_block == get_inf_block_for_comment(blocks, c)
      sup_block == get_sup_block_for_comment(blocks, c)
  IN IF around = -1 THEN "None"
     ELSE IF around # 0 THEN blocks[around].attr
     ELSE IF inf_block # 0 /\ sup_block # 0
          THEN keyword_scan(c, blocks[sup_block].lineno, blocks[inf_block], blocks[sup_block])
     ELSE IF inf_block # 0 THEN blocks[inf_block].attr
     ELSE IF sup_block # 0 THEN blocks[sup_block].attr
     ELSE "None"

(* ------------------------------ placement ------------------------------ *)

(* What a parse call changes: the lists and comment attributes of the tree, *)
(* the inline flags, comment_nodes_set, and the classes whose _fields get   *)
(* "comment" (add_comment_field_to_node_class).                             *)
SetCommentAttr(st, m, c) ==
  [st EXCEPT !.comment[m] = c, !.set = @ \ {c}, !.classes = @ \cup {Nd(m).cls}]

AddToBlock(st, n, a, c) ==
  [st EXCEPT !.tree[<<n, a>>] = add_comment_to_block(@, c), !.set = @ \ {c}]

(* the body of `for node_comment in node_comments` for one comment *)
place_comment(st, n, c, chn, blocks) ==
  IF st.inline[c]
  THEN LET inf_child == IF Len(chn) > 0 THEN get_inf_node_for_comment(chn, c) ELSE 0
           sup_block == get_sup_block_for_comment(blocks, c)
       IN IF inf_child # 0 THEN SetCommentAttr(st, chn[inf_child], c)
          ELSE IF Len(blocks) > 0
               THEN IF sup_block # 0
                    THEN AddToBlock([st EXCEPT !.inline[c] = FALSE], n, blocks[sup_block].attr, c)
                    ELSE st
               ELSE SetCommentAttr(st, n, c)
  ELSE IF Len(blocks) > 0
       THEN LET a == block_for_comment(st.tree, n, blocks, c)
            IN IF a # "None" THEN AddToBlock(st, n, a, c) ELSE st
       ELSE st

RECURSIVE place_comments(_, _, _, _, _)
place_comments(st, n, order, chn, blocks) ==
  IF order = <<>> THEN st
  ELSE place_comments(place_comment(st, n, Head(order), chn, blocks), n, Tail(order), chn, blocks)

node_comments(set, t, n) ==
  comments_in_lines_range(set, Nd(n).lineno, Nd(n).end_lineno) \ comments_inside_children(set, t, n)

(* ast.iter_child_nodes(node): the nodes in the fields of the node's class, *)
(* in _fields order; Comment entries are skipped by the loop and left out   *)
FieldOrder(n) ==
  IF Nd(n).cls \in DOMAIN class_fields THEN class_fields[Nd(n).cls] ELSE Nd(n).fields

RECURSIVE ChildNodes(_, _)
ChildNodes(n, names) ==
  IF names = <<>> THEN <<>>
  ELSE (IF Head(names) \in DOMAIN Nd(n).val
        THEN SelectSeq(Attr(tree, n, Head(names)), LAMBDA e : ~IsComment(e) /\ Nd(e).cls # "NoneType")
        ELSE <<>>) \o ChildNodes(n, Tail(names))

iter_child_nodes(n) == ChildNodes(n, FieldOrder(n))

(* tuple(fields) of a set of names: any order *)
FieldOrders(C) ==
  { f \in [C -> UNION { Perms(NodeFields[c]) : c \in C }] : \A c \in C : f[c] \in Perms(NodeFields[c]) }

(* ------------------------------- actions ------------------------------- *)

Sources == {"str", "bytes", "AST"}

(* isinstance(source, (str, bytes)) *)
IsText_always(source) == source \in Sources

IsText(source) == source \in {"str", "bytes"}

Init ==
  /\ prog \in 1..Len(Programs)
  /\ crlf \in BOOLEAN
  /\ layout \in Layouts(prog)
  /\ phase = "input"
  /\ call = "none"
  /\ tree_calls = 0
  /\ todo = <<>>
  /\ comment_nodes_set = {}
  /\ inline = <<>>
  /\ tree = ast_parse(prog)
  /\ comment = [n \in 1..Len(Programs[prog].nodes) |-> 0]
  /\ class_fields = <<>>
  /\ unparsed = NoText
  /\ source_tree = NoDump

(* parse(source): ast.parse, then enrich when the source is text.  For a   *)
(* tree, ast.parse hands back the tree it was given.  A run is parse(text) *)
(* and then calls parse(tree) on what it returned, or it calls parse(tree) *)
(* on the parser's plain tree of the text.                                 *)
parse(source) ==
  /\ IF source = "AST"
     THEN phase \in {"input", "done"} /\ tree_calls < MaxTreeCalls
     ELSE phase = "input" /\ call = "none"
  /\ call' = IF source = "AST" THEN "tree" ELSE "text"
  /\ tree_calls' = IF source = "AST" THEN tree_calls + 1 ELSE tree_calls
  /\ IF IsText(source)
     THEN /\ tree' = IF source = "AST" THEN tree ELSE ast_parse(prog)
          /\ comment' = IF source = "AST" THEN comment
                        ELSE [n \in 1..Len(Programs[prog].nodes) |-> 0]
          /\ IF DOMAIN extract_comment_nodes = {}
             THEN /\ phase' = "done"
                  /\ UNCHANGED <<todo, comment_nodes_set, inline>>
             ELSE /\ phase' = "walk"
                  /\ todo' = <<Root>>
                  /\ comment_nodes_set' = DOMAIN extract_comment_nodes
                  /\ inline' = extract_comment_nodes
     ELSE UNCHANGED <<phase, todo, comment_nodes_set, inline, tree, comment>>
  /\ UNCHANGED <<prog, crlf, layout, class_fields, unparsed, source_tree>>

Parse == \E source \in Sources : parse(source)

(* one turn of `for node in ast.walk(tree)` in append_comment_nodes; the   *)
(* exception of get_block_range ends the call                              *)
append_comment_nodes_node ==
  /\ phase = "walk"
  /\ todo # <<>>
  /\ LET node == Head(todo)
     IN IF HasPos(node) /\ block_ranges_raises(tree, node)
        THEN /\ phase' = "raised"
             /\ UNCHANGED <<todo, tree, comment, inline, comment_nodes_set, class_fields>>
        ELSE /\ phase' = phase
             /\ todo' = Tail(todo) \o iter_child_nodes(node)
             /\ IF HasPos(node)
                THEN \E order \in Orders(node_comments(comment_nodes_set, tree, node)) :
                       LET st == place_comments(
                                   [tree |-> tree, comment |-> comment, inline |-> inline,
                                    set |-> comment_nodes_set, classes |-> {}],
                                   node, order, children(tree, node), block_ranges(tree, node))
                       IN /\ tree' = st.tree
                          /\ comment' = st.comment
                          /\ inline' = st.inline
                          /\ comment_nodes_set' = st.set
                          /\ \E f \in FieldOrders(st.classes \ DOMAIN class_fields) :
                               class_fields' = f @@ class_fields
                ELSE UNCHANGED <<tree, comment, inline, comment_nodes_set, class_fields>>
  /\ UNCHANGED <<prog, crlf, layout, call, tree_calls, unparsed, source_tree>>

RECURSIVE append_all(_, _)
append_all(block, order) ==
  IF order = <<>> THEN block
  ELSE append_all(add_comment_to_block(block, Head(order)), Tail(order))

(* the walk is over: `for comment_node in comment_nodes_set` puts the rest  *)
(* into the body of the tree, and enrich returns; block.append raises when *)
(* the body is not a list                                                  *)
append_comment_nodes_rest ==
  /\ phase = "walk"
  /\ todo = <<>>
  /\ IF comment_nodes_set # {} /\ "body" \notin Nd(Root).lists
     THEN /\ phase' = "raised"
          /\ UNCHANGED <<tree, comment_nodes_set>>
     ELSE /\ \E order \in Orders(comment_nodes_set) :
               tree' = IF order = <<>> THEN tree
                       ELSE [tree EXCEPT ![<<Root, "body">>] = append_all(@, order)]
          /\ comment_nodes_set' = {}
          /\ phase' = "done"
  /\ UNCHANGED <<prog, crlf, layout, call, tree_calls, todo, inline, comment, class_fields,
                 unparsed, source_tree>>

(* ------------------- a parse call with fixed orders -------------------- *)

(* One of the runs of enrich: every set is iterated in the order of the    *)
(* linenos and every class keeps the order of its fields.                  *)
Ascending(S) == CHOOSE p \in Orders(S) : \A i, j \in 1..Cardinality(S) : i < j => p[i] < p[j]

RECURSIVE walk(_, _)
walk(queue, st) ==
  IF queue = <<>> THEN st
  ELSE LET node == Head(queue)
       IN walk(Tail(queue) \o ChildNodes(node, Nd(node).fields),
               IF HasPos(node)
               THEN place_comments(st, node, Ascending(node_comments(st.set, st.tree, node)),
                                   children(st.tree, node), block_ranges(st.tree, node))
               ELSE st)

enrich_in_order ==
  LET st == walk(<<Root>>, [tree |-> ast_parse(prog),
                            comment |-> [n \in Nodes |-> 0],
                            inline |-> extract_comment_nodes,
                            set |-> DOMAIN extract_comment_nodes, classes |-> {}])
  IN IF st.set = {} THEN st
     ELSE [st EXCEPT !.tree[<<Root, "body">>] = append_all(@, Ascending(st.set))]

Next == Parse \/ append_comment_nodes_node \/ append_comment_nodes_rest

Spec == Init /\ [][Next]_vars

(* ------------------------------- unparse ------------------------------- *)

(* unparse(ast_obj) hands the tree to _Unparser, the parser library's      *)
(* pretty-printer extended by the visitors for Comment and If.  The text   *)
(* it writes is a sequence of rows: the code of the row, the statement or  *)
(* handler the row starts (at, 0: none), the list whose else:/finally: the *)
(* row is (open), the linenos of the comments written on the row (cm) and  *)
(* the way the row's comment is written (kind, as in a layout).            *)
Row(code, at, open, cm, kind) ==
  [code |-> code, at |-> at, open |-> open, cm |-> cm, kind |-> kind]

RECURSIVE Spaces(_)
Spaces(depth) == IF depth = 0 THEN <<>> ELSE Indent \o Spaces(depth - 1)

HasKeywordText(c) == layout[c] \in {"T", "I"}

(* Comment, inline: written behind what the current line already holds *)
write_comment(acc, c) ==
  IF acc = <<>> THEN <<Row(<<>>, 0, <<>>, <<c>>, "s")>>
  ELSE [acc EXCEPT ![Len(acc)] =
          [@ EXCEPT !.cm = @ \o <<c>>,
                    !.kind = IF @ = "-" THEN (IF HasKeywordText(c) THEN "I" ELSE "i")
                             ELSE IF @ = "i" /\ HasKeywordText(c) THEN "I" ELSE @]]

(* Comment, not inline: a line of its own at the current indentation *)
fill_comment(acc, c, depth) ==
  acc \o <<Row(<<>>, 0, <<>>, <<c>>, IF depth = 0 THEN "0" ELSE "s")>>

visit_Comment(acc, c, depth) ==
  IF inline[c] THEN write_comment(acc, c) ELSE fill_comment(acc, c, depth)

RECURSIVE fill_comments(_, _, _)
fill_comments(acc, entries, depth) ==
  IF entries = <<>> THEN acc
  ELSE fill_comments(fill_comment(acc, -Head(entries), depth), Tail(entries), depth)

RECURSIVE LeadingComments(_)
LeadingComments(entries) ==
  IF entries # <<>> /\ IsComment(Head(entries)) THEN 1 + LeadingComments(Tail(entries)) ELSE 0

(* the line a statement or handler starts with, as the source writes it *)
HeaderRow(n) == Row(Prog.code[Nd(n).lineno], n, <<>>, <<>>, "-")

(* the else: or finally: line of a list *)
KeywordRow(n, a, depth) ==
  Row(IF a \in DOMAIN Nd(n).hdr /\ Nd(n).hdr[a] > 0
      THEN Prog.code[Nd(n).hdr[a]] ELSE Spaces(depth) \o <<"K", "c">>,
      0, <<n, a>>, <<>>, "-")

BlankRow == Row(<<>>, 0, <<>>, <<>>, "-")

RECURSIVE traverse(_, _, _), visit(_, _, _), visit_If(_, _, _), visit_lists(_, _, _, _)

traverse(acc, entries, depth) ==
  IF entries = <<>> THEN acc
  ELSE traverse(IF IsComment(Head(entries))
                THEN visit_Comment(acc, -Head(entries), depth)
                ELSE visit(acc, Head(entries), depth),
                Tail(entries), depth)

(* If: a lone If in orelse, whatever comments stand before it, is written  *)
(* as elif, the comments on lines of their own before it                   *)
visit_If(acc, n, depth) ==
  LET body == traverse(acc \o <<HeaderRow(n)>>, Attr(tree, n, "body"), depth + 1)
      orelse == Attr(tree, n, "orelse")
      i == LeadingComments(orelse)
      rest == SubSeq(orelse, i + 1, Len(orelse))
  IN IF orelse = <<>> THEN body
     ELSE IF Len(rest) = 1 /\ Nd(rest[1]).cls = "If"
          THEN visit_If(fill_comments(body, SubSeq(orelse, 1, i), depth), rest[1], depth)
          ELSE traverse(body \o <<KeywordRow(n, "orelse", depth)>>, orelse, depth + 1)

(* the statement lists of a compound statement, in the order written *)
visit_lists(acc, n, names, depth) ==
  IF names = <<>> THEN acc
  ELSE LET a == Head(names)
           block == IF a \in Nd(n).lists THEN Attr(tree, n, a) ELSE <<>>
       IN visit_lists(
            IF block = <<>> THEN acc
            ELSE IF a = "body" THEN traverse(acc, block, depth + 1)
            ELSE IF a = "handlers" THEN traverse(acc, block, depth)
            ELSE traverse(acc \o <<KeywordRow(n, a, depth)>>, block, depth + 1),
            n, Tail(names), depth)

(* the pretty-printer of the parser library: a statement is a line, a      *)
(* compound statement its header and its lists; a def or a class that is   *)
(* not the first line of the text stands behind a blank line               *)
visit(acc, n, depth) ==
  IF Nd(n).cls = "If" THEN visit_If(acc, n, depth)
  ELSE visit_lists(
         (IF Nd(n).cls \in {"ClassDef", "FunctionDef"} /\ acc # <<>>
          THEN acc \o <<BlankRow>> ELSE acc) \o <<HeaderRow(n)>>,
         n, <<"body", "handlers", "orelse", "finalbody">>, depth)

(* _Unparser().visit(ast_obj) for the Module *)
_Unparser == traverse(<<>>, Attr(tree, Root, "body"), 0)

(* The positions the parser gives the nodes in the text of the rows: a     *)
(* statement or handler lies on the row it starts, an expression on the    *)
(* row of the statement or handler it is part of, and a node ends on the   *)
(* last row one of its nodes lies on.                                      *)
ChildrenIn(n) == UNION { Range(Nd(n).val[a]) : a \in DOMAIN Nd(n).val }
Parent(n) == CHOOSE m \in Nodes : n \in ChildrenIn(m)

RECURSIVE Owner(_)
Owner(n) == IF Nd(n).stmt \/ Nd(n).cls = "ExceptHandler" THEN n ELSE Owner(Parent(n))

RECURSIVE Descendants(_)
Descendants(n) == {n} \cup UNION { Descendants(m) : m \in ChildrenIn(n) }

RowOf(rows, n) == CHOOSE r \in 1..Len(rows) : rows[r].at = Owner(n)

KeywordRowOf(rows, n, a) ==
  IF \E r \in 1..Len(rows) : rows[r].open = <<n, a>>
  THEN CHOOSE r \in 1..Len(rows) : rows[r].open = <<n, a>>
  ELSE IF Nd(n).hdr[a] = Nd(n).lineno THEN RowOf(rows, n) ELSE 0

Reparsed(rows, n) ==
  IF Nd(n).lineno = 0 THEN Nd(n)
  ELSE [Nd(n) EXCEPT
          !.lineno = RowOf(rows, n),
          !.end_lineno = Max({ RowOf(rows, m) : m \in { d \in Descendants(n) : Nd(d).lineno > 0 } }),
          !.hdr = [a \in DOMAIN @ |-> KeywordRowOf(rows, n, a)]]

TextOf(rows) ==
  [slots |-> { r \in 1..Len(rows) : rows[r].code = <<>> },
   code |-> [r \in 1..Len(rows) |-> rows[r].code],
   nodes |-> [n \in Nodes |-> Reparsed(rows, n)],
   value |-> [r \in 1..Len(rows) |-> rows[r].cm]]

(* Comment.value: the text of the token.  The comments of a source have    *)
(* different texts, so the lineno in the source stands for the text; the   *)
(* token of a row of unparse's text holds the texts written on the row.    *)
Value(c) == IF unparsed = NoText THEN <<c>> ELSE unparsed.value[c]

(* dump(tree): the lists and the comment attributes, without positions *)
DumpComment(c) == [node |-> 0, value |-> Value(c), inline |-> inline[c]]
DumpEntry(e) == IF IsComment(e) THEN DumpComment(-e) ELSE [node |-> e, value |-> <<>>, inline |-> FALSE]
dump ==
  [lists |-> [na \in DOMAIN tree |-> [i \in 1..Len(tree[na]) |-> DumpEntry(tree[na][i])]],
   attrs |-> [n \in Nodes |-> IF comment[n] = 0 THEN DumpEntry(n) ELSE DumpComment(comment[n])]]

(* unparse(ast_obj) of the tree a parse of text returned; the text it      *)
(* returns is what the next parse call gets                                *)
unparse ==
  /\ phase = "done"
  /\ call = "text"
  /\ unparsed = NoText
  /\ LET rows == _Unparser
     IN /\ unparsed' = TextOf(rows)
        /\ layout' = [r \in 1..Len(rows) |-> rows[r].kind]
  /\ crlf' = FALSE
  /\ source_tree' = dump
  /\ phase' = "input"
  /\ call' = "none"
  /\ UNCHANGED <<prog, tree_calls, todo, comment_nodes_set, inline, tree, comment, class_fields>>

(* parse(unparse(parse(source))) with the default mode: the programs whose *)
(* lists of expressions (elts, keys) get no comment, and no parse call     *)
(* with a tree as source                                                   *)
RoundTripPrograms ==
  { p \in 1..Len(Programs) :
      /\ Programs[p].nodes[Root].cls = "Module"
      /\ \A n \in 1..Len(Programs[p].nodes) : Programs[p].nodes[n].lists \cap {"elts", "keys"} = {} }

InitRoundTrip ==
  /\ prog \in RoundTripPrograms
  /\ crlf \in BOOLEAN
  /\ layout \in Layouts(prog)
  /\ phase = "input"
  /\ call = "none"
  /\ tree_calls = MaxTreeCalls
  /\ todo = <<>>
  /\ comment_nodes_set = {}
  /\ inline = <<>>
  /\ tree = ast_parse(prog)
  /\ comment = [n \in 1..Len(Programs[prog].nodes) |-> 0]
  /\ class_fields = <<>>
  /\ unparsed = NoText
  /\ source_tree = NoDump

NextRoundTrip == Parse \/ append_comment_nodes_node \/ append_comment_nodes_rest \/ unparse

SpecRoundTrip == InitRoundTrip /\ [][NextRoundTrip]_vars
(* ------------------------- vocabulary of the claims -------------------- *)

Parsed == phase = "done"

(* the lines of the text that hold a comment token *)
CommentLines == { l \in 1..NumLines : layout[l] # "-" }

(* the comment stands alone on its line / follows code on its line *)
Standalone(l) == layout[l] \in {"0", "s", "t", "T"}
BehindCode(l) == layout[l] \in {"i", "I"}

LeadingBlanks(s) == Len(s) - Len(lstrip(s, " "))
CommentCol(l) == IF layout[l] = "s" THEN Len(Indent) ELSE 0
NodeCol(n) == LeadingBlanks(Prog.code[Nd(n).lineno])

Lists == DOMAIN tree
Orig(na) == ast_parse(prog)[na]
Places(c) == { <<na, i>> \in Lists \X (1..(NumLines + Len(Prog.nodes))) :
                 i <= Len(tree[na]) /\ tree[na][i] = -c }
Has(s, e) == \E i \in 1..Len(s) : s[i] = e
Index(s, e) == CHOOSE i \in 1..Len(s) : s[i] = e
Statements(s) == SelectSeq(s, LAMBDA e : ~IsComment(e))

Hdr(na) == IF na[2] \in DOMAIN Nd(na[1]).hdr THEN Nd(na[1]).hdr[na[2]] ELSE 0
FirstLine(na) == lineno(Orig(na)[1])
LastLine(na) == Max({ end_lineno(Orig(na)[i]) : i \in 1..Len(Orig(na)) })
StatementLists == { na \in Lists : na[2] \in {"body", "orelse", "finalbody"} /\ Orig(na) # <<>> }
OnlySlots(from, to) == \A l \in from..to : l \in Prog.slots

(* ------------------------------- claims -------------------------------- *)

(* C1: after parse(source) the Comment of every comment token of the text  *)
(* occurs exactly once, in exactly one container list of the tree.         *)
C1_EveryCommentInOneList ==
  Parsed => \A c \in CommentLines : Cardinality(Places(c)) = 1

(* C2: a comment behind the code of statements on its line is put, with    *)
(* inline = True, into the list that holds those statements, right behind  *)
(* the last statement that ends on the line.                               *)
C2_InlineCommentFollowsStatement ==
  Parsed =>
    \A c \in CommentLines :
      (BehindCode(c) /\ \E n \in Nodes : Nd(n).stmt /\ Nd(n).end_lineno = c) =>
        \E na \in Lists : \E i \in 1..Len(tree[na]) :
          /\ ~IsComment(tree[na][i]) /\ Nd(tree[na][i]).stmt /\ end_lineno(tree[na][i]) = c
          /\ i < Len(tree[na]) /\ tree[na][i + 1] = -c
          /\ inline[c]

(* C3: a comment behind the header of a branch (if, elif, else, for, try,  *)
(* except, finally) is the first entry of the branch's own list and keeps  *)
(* inline = True.                                                          *)
C3_HeaderCommentOpensBranch ==
  Parsed =>
    \A na \in StatementLists : \A c \in CommentLines :
      (BehindCode(c) /\ Hdr(na) = c /\ FirstLine(na) > c) =>
        (tree[na][1] = -c /\ inline[c])

(* C4: a standalone comment behind the last statement of one block of a    *)
(* compound statement and before the header of its next block, written at  *)
(* the statement's own indentation, is put in front of the next block's    *)
(* list and not into the list of the block before.                         *)
C4_CommentBeforeElseGoesToNextBlock ==
  Parsed =>
    \A pa \in StatementLists : \A na \in StatementLists : \A c \in CommentLines :
      ( /\ pa[1] = na[1] /\ na[2] \in {"orelse", "finalbody"} /\ Hdr(na) > 0
        /\ layout[c] \in {"0", "s"} /\ CommentCol(c) = NodeCol(na[1])
        /\ LastLine(pa) < c /\ c < Hdr(na)
        /\ OnlySlots(LastLine(pa) + 1, Hdr(na) - 1) ) =>
        ( /\ Has(tree[na], -c)
          /\ \A j \in 1..Index(tree[na], -c) : IsComment(tree[na][j])
          /\ ~Has(tree[pa], -c) )

(* C5: a standalone comment behind the last statement of an indented       *)
(* block, indented like the block (or deeper), is the last entry of that   *)
(* block's list.                                                           *)
BlockCol(na) == LeadingBlanks(Prog.code[FirstLine(na)])
C5_TrailingCommentStaysInBlock ==
  Parsed =>
    \A na \in StatementLists : \A c \in CommentLines :
      ( /\ layout[c] \in {"0", "s"}
        /\ BlockCol(na) > 0 /\ BlockCol(na) <= CommentCol(c)
        /\ LastLine(na) < c /\ OnlySlots(LastLine(na) + 1, c)
        /\ \A nb \in StatementLists :
             (LastLine(nb) = LastLine(na) /\ BlockCol(nb) <= CommentCol(c)) => BlockCol(nb) <= BlockCol(na) ) =>
        ( /\ Has(tree[na], -c)
          /\ \A j \in Index(tree[na], -c)..Len(tree[na]) : IsComment(tree[na][j]) )

(* C6: a standalone comment between the header line of a compound          *)
(* statement and the first statement of its body is in that body list,     *)
(* before the first statement, whatever its indentation.                   *)
BeforeBody(n, c) ==
  /\ <<n, "body">> \in StatementLists
  /\ Standalone(c)
  /\ Hdr(<<n, "body">>) > 0 /\ Hdr(<<n, "body">>) < c /\ c < FirstLine(<<n, "body">>)

C6_CommentBeforeFirstStatement ==
  Parsed =>
    \A n \in Nodes : \A c \in CommentLines :
      BeforeBody(n, c) =>
        /\ Has(tree[<<n, "body">>], -c)
        /\ Cardinality(Places(c)) = 1
        /\ Index(tree[<<n, "body">>], -c) < Index(tree[<<n, "body">>], Orig(<<n, "body">>)[1])

(* C7: a comment on a line inside the span of no node is put into the body *)
(* of the root, at the place its line gives it among the top-level         *)
(* statements, with inline = False.                                        *)
Unspanned(c) == \A n \in Nodes : HasPos(n) => ~(Nd(n).lineno <= c /\ c <= Nd(n).end_lineno)

C8_ListsOrdered ==
  Parsed =>
    \A na \in Lists :
      /\ \A i, j \in 1..Len(tree[na]) :
           i < j => /\ end_lineno(tree[na][i]) <= end_lineno(tree[na][j])
                    /\ ~( /\ end_lineno(tree[na][i]) = end_lineno(tree[na][j])
                          /\ IsComment(tree[na][i]) /\ ~IsComment(tree[na][j]) )
      /\ Statements(tree[na]) = Orig(na)

C8_Witness ==
  /\ Parsed
  /\ \E na \in Lists : \E i \in 2..Len(tree[na]) :
       /\ i < Len(tree[na])
       /\ IsComment(tree[na][i]) /\ ~IsComment(tree[na][i - 1]) /\ ~IsComment(tree[na][i + 1])

(* C9: the extractor marks a comment inline exactly when a character that  *)
(* is not whitespace precedes the comment marker on its physical line.     *)
CodePrecedes(l) ==
  \E i \in 1..(Find(splitlines(l), {"#"}, 1) - 1) : splitlines(l)[i] \notin {" ", "\t"}

C9_InlineIffCodePrecedes ==
  (phase = "walk" /\ todo = <<Root>>) =>
    \A c \in CommentLines : inline[c] <=> CodePrecedes(c)

(* C10: parse applied to a tree (enriched or plain) returns it as it is:   *)
(* no step of such a call changes a list, a comment attribute or a flag.   *)
C10_TreeSourceUnchanged ==
  [][call' = "tree" => (tree' = tree /\ comment' = comment /\ inline' = inline)]_vars

C10_Witness ==
  /\ call = "tree" /\ phase = "done" /\ tree_calls = 1
  /\ \E na \in Lists : \E i \in 1..Len(tree[na]) : IsComment(tree[na][i])


(* C11: parsing the text that unparse writes for a parsed tree gives a tree *)
(* whose dump equals the dump of the parsed tree: every comment is back in  *)
(* the same place with the same text and the same inline flag.              *)
RoundTripDone == phase = "done" /\ unparsed # NoText
C11_RoundTrip == RoundTripDone => dump = source_tree

(* C12: placement is total: a parse call of a text the parser accepts      *)
(* never ends with an exception, also when a list of the tree holds an     *)
(* entry without line numbers or the body of the root is not a list.       *)
C12_PlacementTotal == phase # "raised"

(* C13: a parse call changes nothing that outlives it except the tree it   *)
(* returns: when it has returned, the field list of every node class is    *)
(* what it was before the call.                                            *)
C13_NoSharedStateChanged == Parsed => class_fields = <<>>

(* C14: of two Comments that are neighbours in a list of the returned       *)
(* tree, the later one has inline = False.                                 *)
C14_AdjacentCommentNotInline ==
  Parsed =>
    \A na \in Lists : \A i \in 1..(Len(tree[na]) - 1) :
      (IsComment(tree[na][i]) /\ IsComment(tree[na][i + 1])) => ~inline[-tree[na][i + 1]]

(* C15: the tree parse returns for a text does not depend on the order in  *)
(* which the set of comments and the fields of a node class are iterated:  *)
(* it is the tree of the run that takes the comments by lineno and the     *)
(* fields as the class lists them.                                         *)
InTree(c) == Places(c) # {} \/ \E n \in Nodes : comment[n] = c

C15_SameTreeForEveryOrder ==
  Parsed =>
    /\ tree = enrich_in_order.tree
    /\ comment = enrich_in_order.comment
    /\ \A c \in CommentLines : InTree(c) => inline[c] = enrich_in_order.inline[c]

(* C16: no comment is lost: after parse(source) every comment of the text  *)
(* is in a list of the tree or is the comment attribute of a node.         *)
C16_NoCommentLost == Parsed => \A c \in CommentLines : InTree(c)

(* C17: a comment behind a statement of one list of a compound statement   *)
(* is not put into another list of that compound statement, and its inline *)
(* flag stays True.                                                        *)
C17_InlineCommentKeepsItsBlock ==
  Parsed =>
    \A pa \in StatementLists : \A c \in CommentLines :
      (BehindCode(c) /\ \E i \in 1..Len(Orig(pa)) : end_lineno(Orig(pa)[i]) = c) =>
        /\ \A na \in Lists : (na[1] = pa[1] /\ na # pa) => ~Has(tree[na], -c)
        /\ inline[c]

(* C18: a standalone comment (behind nothing or blanks, on a line ending   *)
(* in "\n") behind the else: or finally: line of a later list of a compound *)
(* statement and before the first statement of that list is put into that  *)
(* list and into no other list of the statement, whatever the line of the  *)
(* first statement holds.                                                  *)
C18_CommentAfterHeaderGoesToLaterBlock ==
  Parsed =>
    \A na \in StatementLists : \A c \in CommentLines :
      ( /\ na[2] \in {"orelse", "finalbody"}
        /\ ~crlf /\ layout[c] \in {"0", "s"}
        /\ Hdr(na) > 0 /\ Hdr(na) < c /\ c < FirstLine(na) ) =>
        /\ Has(tree[na], -c)
        /\ \A pa \in Lists : (pa[1] = na[1] /\ pa # na) => ~Has(tree[pa], -c)
====
